---------------------------- MODULE Spec2Model ----------------------------
(***************************************************************************)
(* A model of mcp_server.py: the POST /search endpoint, the async          *)
(* generator event_stream that relays one Brave search as a sequence of    *)
(* server-sent events, and brave_search, the single upstream GET.          *)
(* The consumer of the generator (the StreamingResponse) is taken to       *)
(* resume it until it ends.                                                *)
(*                                                                         *)
(* Every variable is a function of the request, so that several streams    *)
(* can be run side by side.  One action is one run of the generator from   *)
(* a suspension point (a yield or an await) to the next one.               *)
(***************************************************************************)
EXTENDS Integers, Sequences, FiniteSets, TLC

(***************************************************************************)
(* Bounds of the model.                                                    *)
(***************************************************************************)
\* the longest result list the upstream returns
MaxResults == 2
\* the largest explicit count a payload carries
MaxCount == 3
\* the payload counts go down to -MaxNegCount
MaxNegCount == 2

(***************************************************************************)
(* Program constants.                                                      *)
(***************************************************************************)
\* class SearchRequest: count: int = 5
SearchRequestCount == 5
\* search: body.count or 5
FallbackCount == 5

\* the streams modelled; Spec runs the first one, alone
Requests == {1, 2}

Min(a, b) == IF a <= b THEN a ELSE b
Max(a, b) == IF a >= b THEN a ELSE b

(***************************************************************************)
(* The JSON payload of POST /search and the SearchRequest built from it.   *)
(***************************************************************************)
Queries == {"tla", ""}
Languages == {"en", "fr"}
Counts == (0 - MaxNegCount)..MaxCount

\* a payload always names the query; count and language are optional
Payloads ==
    {[query |-> q] : q \in Queries}
    \cup {[query |-> q, count |-> c] : q \in Queries, c \in Counts}
    \cup {[query |-> q, language |-> l] : q \in Queries, l \in Languages}
    \cup {[query |-> q, count |-> c, language |-> l] :
             q \in Queries, c \in Counts, l \in Languages}

\* class SearchRequest(BaseModel): the defaults fill the fields left out
SearchRequest(p) ==
    [query    |-> p.query,
     count    |-> IF "count" \in DOMAIN p THEN p.count ELSE SearchRequestCount,
     language |-> IF "language" \in DOMAIN p THEN p.language ELSE "en"]

\* Python's `x or 5` on an int: 0 is falsy
OrDefault(x, d) == IF x # 0 THEN x ELSE d

\* the arguments search hands to event_stream: (request, body.query, body.count or 5)
StreamArgs(body) ==
    [query |-> body.query, count |-> OrDefault(body.count, FallbackCount)]

NoBody == [query |-> "", count |-> 0, language |-> ""]
NoArgs == [query |-> "", count |-> 0]


(***************************************************************************)
(* The upstream provider: what client.get may produce.                     *)
(***************************************************************************)
\* one upstream result: a JSON object holding some of the keys, or a JSON
\* value that is no object (a string, null), on which .get raises
Dict(items) == [dict |-> TRUE, items |-> items]
NotADict == [dict |-> FALSE, items |-> <<>>]

ResultValues ==
    {Dict([title |-> "t1", description |-> "d1", url |-> "u1"]),
     Dict([title |-> "t2", description |-> "d2", url |-> "u2"]),
     Dict([title |-> "t3"]),
     NotADict}

RECURSIVE SeqsUpTo(_, _)
SeqsUpTo(S, n) ==
    IF n = 0 THEN {<<>>}
    ELSE LET shorter == SeqsUpTo(S, n - 1)
         IN  shorter \cup {Append(s, x) : s \in {t \in shorter : Len(t) = n - 1}, x \in S}

ResultLists == SeqsUpTo(ResultValues, MaxResults)

\* the parsed JSON body: an object with or without "web", whose value has
\* or has not "results"
JsonBody(hasWeb, hasResults, results) ==
    [hasWeb |-> hasWeb, hasResults |-> hasResults, results |-> results]

JsonBodies ==
    {JsonBody(FALSE, FALSE, <<>>), JsonBody(TRUE, FALSE, <<>>)}
    \cup {JsonBody(TRUE, TRUE, l) : l \in ResultLists}

\* what the GET ends with: a transport failure (no response), or a response
\* with a status, a text and, when the text parses, its JSON
Outcome(transport, status, text, valid, data) ==
    [transport |-> transport, status |-> status, text |-> text,
     valid |-> valid, data |-> data]

NoData == JsonBody(FALSE, FALSE, <<>>)
NoOutcome == Outcome(FALSE, 0, "", FALSE, NoData)

ErrorStatuses == {429, 500}

Outcomes ==
    {Outcome(TRUE, 0, "timed out", FALSE, NoData)}
    \cup {Outcome(FALSE, s, "rate limited", FALSE, NoData) : s \in ErrorStatuses}
    \cup {Outcome(FALSE, 200, "<html>", FALSE, NoData)}
    \cup {Outcome(FALSE, 200, "json", TRUE, d) : d \in JsonBodies}

\* an exception: its class, what str(e) is made of, and, of an
\* HTTPStatusError, e.response.status_code and e.response.text
Exc(type, str, code, text) == [type |-> type, str |-> str, code |-> code, text |-> text]
NoExc == Exc("", <<>>, 0, "")

\* brave_search, lines 49-56: client.get raises on a transport failure,
\* raise_for_status on a status that is no success, json() on a body that
\* does not parse; otherwise the parsed body is returned
brave_search_result(o) ==
    IF o.transport
    THEN [raised |-> TRUE, data |-> NoData,
          exc |-> Exc("TransportError", <<o.text>>, 0, "")]
    ELSE IF ~(o.status \in 200..299)
    THEN [raised |-> TRUE, data |-> NoData,
          exc |-> Exc("HTTPStatusError",
                      <<"Error '", ToString(o.status), "' for url">>,
                      o.status, o.text)]
    ELSE IF ~o.valid
    THEN [raised |-> TRUE, data |-> NoData,
          exc |-> Exc("JSONDecodeError", <<"Expecting value">>, 0, "")]
    ELSE [raised |-> FALSE, data |-> o.data, exc |-> NoExc]

\* brave_search, lines 42-47: the query parameters of the GET
brave_search_params(query, count, language) ==
    [q |-> query, count |-> count, search_lang |-> language,
     text_decorations |-> "true"]

\* event_stream, line 63: brave_search(query, count); the language is left
\* to the default of brave_search's signature, "en"
brave_search_call(query, count) == brave_search_params(query, count, "en")

\* line 65: data.get("web", {}).get("results", [])
web_results_of(data) ==
    IF data.hasWeb /\ data.hasResults THEN data.results ELSE <<>>

\* a variant of line 65 that subscripts, data["web"]["results"], and so
\* raises KeyError on a body without the path
web_results_subscript(data) ==
    IF data.hasWeb /\ data.hasResults
    THEN [raised |-> FALSE, exc |-> NoExc, value |-> data.results]
    ELSE [raised |-> TRUE, exc |-> Exc("KeyError", <<"'web'">>, 0, ""),
          value |-> <<>>]

\* line 65 as a step of the generator: .get with a default never raises
web_results_get(data) ==
    [raised |-> FALSE, exc |-> NoExc, value |-> web_results_of(data)]

\* a variant of line 67 that tests `web_results is None`, which the default
\* [] of line 65 never is
NotWebResultsIsNone(wr) == FALSE

\* line 67: `not web_results`
NotWebResults(wr) == wr = <<>>

\* a variant of line 76 that slices from the end, s[-stop:]
PySliceTail(s, stop) ==
    IF stop >= 0 THEN SubSeq(s, Len(s) - Min(stop, Len(s)) + 1, Len(s))
    ELSE <<>>

\* Python's s[:stop]
PySlice(s, stop) ==
    IF stop >= 0 THEN SubSeq(s, 1, Min(stop, Len(s)))
    ELSE SubSeq(s, 1, Max(Len(s) + stop, 0))

\* dict.get(key, default)
DictGet(d, key, default) == IF key \in DOMAIN d THEN d[key] ELSE default

(***************************************************************************)
(* SSE frames.  A frame is its event name ("" for a frame with no event:   *)
(* line) and its data line, as the pieces of text it is formatted from.    *)
(***************************************************************************)
Frame(event, data) == [event |-> event, data |-> data]

SearchStarted == Frame("status", <<"Search started">>)
NoResultsFound == Frame("status", <<"No results found">>)
StreamingResults == Frame("status", <<"Streaming results">>)
EndEmpty == Frame("end", <<"[]">>)
EndOfStream == Frame("end", <<"end_of_stream">>)

\* lines 77-83: json.dumps of the chunk, keys in insertion order
JsonDumpsChunk(index, result) ==
    <<"index", ToString(index),
      "title", DictGet(result.items, "title", ""),
      "description", DictGet(result.items, "description", ""),
      "url", DictGet(result.items, "url", "")>>

DataFrame(index, result) == Frame("", JsonDumpsChunk(index, result))

\* a variant of lines 92-95 with the generic clause alone
ExceptFrameGeneric(e) ==
    [caught |-> TRUE, frame |-> Frame("error", <<"Exception: ">> \o e.str)]

\* a variant of lines 92-95 with the HTTPStatusError clause alone
ExceptFrameHttpOnly(e) ==
    [caught |-> e.type = "HTTPStatusError",
     frame |-> Frame("error", <<"HTTP error ", ToString(e.code), " - ", e.text>>)]

\* lines 92-95: the two except clauses; every exception modelled is an
\* Exception, so the second clause catches whatever the first does not
ExceptFrame(e) ==
    IF e.type = "HTTPStatusError"
    THEN [caught |-> TRUE,
          frame |-> Frame("error", <<"HTTP error ", ToString(e.code), " - ", e.text>>)]
    ELSE [caught |-> TRUE,
          frame |-> Frame("error", <<"Exception: ">> \o e.str)]

IsTerminal(f) == f.event \in {"end", "error"}
IsData(f) == f.event = ""

(***************************************************************************)
(* The state, per request.                                                 *)
(***************************************************************************)
VARIABLES
    pc,          \* where the stream's generator is suspended
    body,        \* the SearchRequest of the request
    args,        \* the query and count event_stream was called with
    gets,        \* the upstream GETs issued, each with what had been emitted
    outcome,     \* what the upstream GET ended with
    web_results, \* line 65
    sliced,      \* web_results[:count], the list the loop of line 76 walks
    i,           \* how many results the loop has taken
    events,      \* the frames the generator has yielded, in order
    connected,   \* whether the client is still there
    checks,      \* how many times request.is_disconnected() was awaited
    sleeps,      \* how many times asyncio.sleep(0.1) was awaited
    detected,    \* whether is_disconnected() has answered True
    exc          \* the exception raised inside the try, if any

vars == <<pc, body, args, gets, outcome, web_results, sliced, i, events,
          connected, checks, sleeps, detected, exc>>

\* "idle"       no request yet
\* "created"    search has built the generator; nothing has run
\* "started"    suspended at the yield of line 61
\* "fetching"   suspended in brave_search at the await of line 50
\* "no_results" suspended at the yield of line 68
\* "streaming"  suspended at the yield of line 72
\* "data"       suspended at the yield of line 83
\* "sleeping"   suspended at the await of line 88
\* "end_sent"   suspended at the yield of line 69 or line 90
\* "error_sent" suspended at the yield of line 93 or line 95
\* "closed"     the generator has returned
\* "raised"     an exception has left the generator
Positions == {"idle", "created", "started", "fetching", "no_results",
              "streaming", "data", "sleeping", "end_sent", "error_sent",
              "closed", "raised"}

Init ==
    /\ pc = [r \in Requests |-> "idle"]
    /\ body = [r \in Requests |-> NoBody]
    /\ args = [r \in Requests |-> NoArgs]
    /\ gets = [r \in Requests |-> <<>>]
    /\ outcome = [r \in Requests |-> NoOutcome]
    /\ web_results = [r \in Requests |-> <<>>]
    /\ sliced = [r \in Requests |-> <<>>]
    /\ i = [r \in Requests |-> 0]
    /\ events = [r \in Requests |-> <<>>]
    /\ connected = [r \in Requests |-> TRUE]
    /\ checks = [r \in Requests |-> 0]
    /\ sleeps = [r \in Requests |-> 0]
    /\ detected = [r \in Requests |-> FALSE]
    /\ exc = [r \in Requests |-> NoExc]

\* the generator yields frame f and suspends at position p
Yield(r, f, p) ==
    /\ events' = [events EXCEPT ![r] = Append(@, f)]
    /\ pc' = [pc EXCEPT ![r] = p]

\* a variant of the handling of an exception that calls the upstream once
\* more after a transport failure
RaiseRetry(r, e) ==
    /\ exc' = [exc EXCEPT ![r] = e]
    /\ IF e.type = "TransportError" /\ Len(gets[r]) < 2
       THEN /\ pc' = [pc EXCEPT ![r] = "started"]
            /\ UNCHANGED events
       ELSE Yield(r, ExceptFrame(e).frame, "error_sent")

\* exception e is raised inside the try of lines 60-90: the except clauses
\* of lines 92-95 turn it into an error frame, or it leaves the generator
Raise(r, e) ==
    /\ exc' = [exc EXCEPT ![r] = e]
    /\ IF ExceptFrame(e).caught
       THEN Yield(r, ExceptFrame(e).frame, "error_sent")
       ELSE /\ pc' = [pc EXCEPT ![r] = "raised"]
            /\ UNCHANGED events

\* lines 76-90, one turn of the loop over list l having taken k results:
\* the next chunk is built and yielded (result.get raises on a result that
\* is no object), or the list is exhausted and the end frame is yielded
LoopTurn(r, l, k) ==
    IF k < Len(l)
    THEN /\ i' = [i EXCEPT ![r] = k + 1]
         /\ IF l[k + 1].dict
            THEN /\ Yield(r, DataFrame(k + 1, l[k + 1]), "data")
                 /\ UNCHANGED exc
            ELSE Raise(r, Exc("AttributeError", <<"object has no attribute 'get'">>, 0, ""))
    ELSE /\ i' = [i EXCEPT ![r] = k]
         /\ Yield(r, EndOfStream, "end_sent")
         /\ UNCHANGED exc

\* a variant of line 86 with continue in the place of break: the loop goes
\* on to its next turn
BreakAsContinue(r) ==
    /\ pc' = [pc EXCEPT ![r] = "sleeping"]
    /\ UNCHANGED events

\* a variant of line 86 with return in the place of break: the generator
\* ends without another frame
BreakAsReturn(r) ==
    /\ pc' = [pc EXCEPT ![r] = "closed"]
    /\ UNCHANGED events

\* lines 86 and 90: break leaves the loop, and the statement after the loop
\* yields the end frame
Break(r) == Yield(r, EndOfStream, "end_sent")

\* a variant of line 65 that keeps the result list in a module-level
\* variable, shared by every request
StoreWebResultsGlobal(r, wr) == web_results' = [q \in Requests |-> wr]

\* line 65: web_results is a local of the generator of request r
StoreWebResults(r, wr) == web_results' = [web_results EXCEPT ![r] = wr]

(***************************************************************************)
(* The operations.                                                         *)
(***************************************************************************)
\* POST /search with payload p, lines 98-115
search(r, p) ==
    /\ pc[r] = "idle"
    /\ body' = [body EXCEPT ![r] = SearchRequest(p)]
    /\ args' = [args EXCEPT ![r] = StreamArgs(SearchRequest(p))]
    /\ pc' = [pc EXCEPT ![r] = "created"]
    /\ UNCHANGED <<gets, outcome, web_results, sliced, i, events, connected,
                   checks, sleeps, detected,
                   exc>>

\* the first step of the generator, lines 60-61
event_stream_start(r) ==
    /\ pc[r] = "created"
    /\ Yield(r, SearchStarted, "started")
    /\ UNCHANGED <<body, args, gets, outcome, web_results, sliced, i,
                   connected, checks, sleeps, detected,
                   exc>>

\* line 63 down to the await of line 50: the GET is issued
event_stream_fetch(r) ==
    /\ pc[r] = "started"
    /\ gets' = [gets EXCEPT ![r] =
                   Append(@, [params |-> brave_search_call(args[r].query, args[r].count),
                              emitted |-> Len(events[r])])]
    /\ pc' = [pc EXCEPT ![r] = "fetching"]
    /\ UNCHANGED <<body, args, outcome, web_results, sliced, i, events,
                   connected, checks, sleeps, detected,
                   exc>>

\* the GET ends with o: lines 50-56, then lines 65-72 or the except clauses
event_stream_fetched(r, o) ==
    /\ pc[r] = "fetching"
    /\ outcome' = [outcome EXCEPT ![r] = o]
    /\ LET res == brave_search_result(o)
           got == web_results_get(res.data)
           wr == got.value
       IN  IF res.raised \/ got.raised
           THEN /\ Raise(r, IF res.raised THEN res.exc ELSE got.exc)
                /\ UNCHANGED web_results
           ELSE /\ StoreWebResults(r, wr)
                /\ IF NotWebResults(wr)
                   THEN Yield(r, NoResultsFound, "no_results")
                   ELSE Yield(r, StreamingResults, "streaming")
                /\ UNCHANGED exc
    /\ UNCHANGED <<body, args, gets, sliced, i, connected, checks, sleeps,
                   detected>>

\* lines 69-70
event_stream_empty_end(r) ==
    /\ pc[r] = "no_results"
    /\ Yield(r, EndEmpty, "end_sent")
    /\ UNCHANGED <<body, args, gets, outcome, web_results, sliced, i,
                   connected, checks, sleeps, detected,
                   exc>>

\* line 76: the slice is taken and the loop entered
event_stream_loop(r) ==
    /\ pc[r] = "streaming"
    /\ sliced' = [sliced EXCEPT ![r] = PySlice(web_results[r], args[r].count)]
    /\ LoopTurn(r, PySlice(web_results[r], args[r].count), 0)
    /\ UNCHANGED <<body, args, gets, outcome, web_results, connected, checks,
                   sleeps, detected>>

\* a variant of lines 85-90 that makes no check after the last result
event_stream_check_not_last(r) ==
    /\ pc[r] = "data"
    /\ IF i[r] = Len(sliced[r])
       THEN /\ Yield(r, EndOfStream, "end_sent")
            /\ UNCHANGED <<checks, sleeps, detected>>
       ELSE /\ checks' = [checks EXCEPT ![r] = @ + 1]
            /\ IF ~connected[r]
               THEN /\ detected' = [detected EXCEPT ![r] = TRUE]
                    /\ Break(r)
                    /\ UNCHANGED sleeps
               ELSE /\ sleeps' = [sleeps EXCEPT ![r] = @ + 1]
                    /\ pc' = [pc EXCEPT ![r] = "sleeping"]
                    /\ UNCHANGED <<events, detected>>
    /\ UNCHANGED <<body, args, gets, outcome, web_results, sliced, i,
                   connected, exc>>

\* lines 85-88 and 90: the disconnect check after a data frame; on True the
\* loop is left by break and line 90 yields the end frame
event_stream_check(r) ==
    /\ pc[r] = "data"
    /\ checks' = [checks EXCEPT ![r] = @ + 1]
    /\ IF ~connected[r]
       THEN /\ detected' = [detected EXCEPT ![r] = TRUE]
            /\ Break(r)
            /\ UNCHANGED sleeps
       ELSE /\ sleeps' = [sleeps EXCEPT ![r] = @ + 1]
            /\ pc' = [pc EXCEPT ![r] = "sleeping"]
            /\ UNCHANGED <<events, detected>>
    /\ UNCHANGED <<body, args, gets, outcome, web_results, sliced, i,
                   connected,
                   exc>>

\* the sleep of line 88 is over: the next turn of the loop
event_stream_next(r) ==
    /\ pc[r] = "sleeping"
    /\ LoopTurn(r, sliced[r], i[r])
    /\ UNCHANGED <<body, args, gets, outcome, web_results, sliced, connected,
                   checks, sleeps, detected>>

\* a variant of the end of the generator that yields end: end_of_stream
\* after an error frame too
event_stream_return_end(r) ==
    /\ pc[r] \in {"end_sent", "error_sent"}
    /\ IF pc[r] = "error_sent"
       THEN Yield(r, EndOfStream, "end_sent")
       ELSE /\ pc' = [pc EXCEPT ![r] = "closed"]
            /\ UNCHANGED events
    /\ UNCHANGED <<body, args, gets, outcome, web_results, sliced, i,
                   connected, checks, sleeps, detected, exc>>

\* resumed after its last yield, the generator returns
event_stream_return(r) ==
    /\ pc[r] \in {"end_sent", "error_sent"}
    /\ pc' = [pc EXCEPT ![r] = "closed"]
    /\ UNCHANGED <<body, args, gets, outcome, web_results, sliced, i, events,
                   connected, checks, sleeps, detected,
                   exc>>

\* the client goes away, at any moment of a request
client_disconnect(r) ==
    /\ pc[r] \notin {"idle", "closed", "raised"}
    /\ connected[r]
    /\ connected' = [connected EXCEPT ![r] = FALSE]
    /\ UNCHANGED <<pc, body, args, gets, outcome, web_results, sliced, i,
                   events, checks, sleeps, detected,
                   exc>>

\* the steps of request r, its payload drawn from P and the outcome of its
\* upstream call from O
StepOf(r, P, O) ==
    \/ \E p \in P : search(r, p)
    \/ event_stream_start(r)
    \/ event_stream_fetch(r)
    \/ \E o \in O : event_stream_fetched(r, o)
    \/ event_stream_empty_end(r)
    \/ event_stream_loop(r)
    \/ event_stream_check(r)
    \/ event_stream_next(r)
    \/ event_stream_return(r)
    \/ client_disconnect(r)

Step(r) == StepOf(r, Payloads, Outcomes)

\* one request, alone
Next == Step(1)

Spec == Init /\ [][Next]_vars

\* the steps of the generator of request r: what the event loop runs once
\* the awaited call has ended (the GET has a timeout, the sleep is 0.1 s)
\* and what the consumer resumes after each frame
Resume(r) ==
    \/ event_stream_start(r)
    \/ event_stream_fetch(r)
    \/ \E o \in Outcomes : event_stream_fetched(r, o)
    \/ event_stream_empty_end(r)
    \/ event_stream_loop(r)
    \/ event_stream_check(r)
    \/ event_stream_next(r)
    \/ event_stream_return(r)

\* one request, alone, whose generator is resumed whenever it can be
SpecFair == Spec /\ WF_vars(Resume(1))

\* the requests run side by side: payloads and upstream outcomes that take
\* every path of the generator (transport failure, error status, no result,
\* results, a result that is no object)
ConcurrentPayloads ==
    {[query |-> "tla"],
     [query |-> "tla", count |-> 1],
     [query |-> "", count |-> 2, language |-> "fr"]}

ConcurrentOutcomes ==
    {Outcome(TRUE, 0, "timed out", FALSE, NoData),
     Outcome(FALSE, 429, "rate limited", FALSE, NoData),
     Outcome(FALSE, 200, "json", TRUE, JsonBody(TRUE, TRUE, <<>>)),
     Outcome(FALSE, 200, "json", TRUE,
             JsonBody(TRUE, TRUE,
                      <<Dict([title |-> "t1", description |-> "d1", url |-> "u1"]),
                        Dict([title |-> "t2", description |-> "d2", url |-> "u2"])>>)),
     Outcome(FALSE, 200, "json", TRUE,
             JsonBody(TRUE, TRUE, <<Dict([title |-> "t3"]), NotADict>>))}

\* any request takes the next step: the tasks interleave at their
\* suspension points
NextAll == \E r \in Requests : StepOf(r, ConcurrentPayloads, ConcurrentOutcomes)

SpecAll == Init /\ [][NextAll]_vars

(***************************************************************************)
(* Vocabulary of the properties.                                           *)
(***************************************************************************)
\* the generator is over: it has returned, or an exception has left it
Finished(r) == pc[r] \in {"closed", "raised"}
\* the upstream call has ended
Fetched(r) == pc[r] \notin {"idle", "created", "started", "fetching"}
\* the upstream call has ended with a parsed body
FetchSucceeded(r) == Fetched(r) /\ ~brave_search_result(outcome[r]).raised
\* the data frames emitted so far, in order
DataEvents(r) == SelectSeq(events[r], IsData)
\* the positions of the terminal frames emitted so far
TerminalAt(r) == {k \in 1..Len(events[r]) : IsTerminal(events[r][k])}
LastEvent(r) == events[r][Len(events[r])]
\* the pieces of text of a frame's data line
Pieces(f) == {f.data[k] : k \in 1..Len(f.data)}
\* every result of list l is a JSON object
WellFormed(l) == \A k \in 1..Len(l) : l[k].dict
\* the upstream call has succeeded and line 65 found no result
ZeroResults(r) == FetchSucceeded(r) /\ web_results_of(outcome[r].data) = <<>>
\* the upstream has answered with a status that is no success
HttpFailed(r) ==
    Fetched(r) /\ ~outcome[r].transport /\ outcome[r].status \notin 200..299
\* the positions of the error frames emitted so far
ErrorAt(r) == {k \in 1..Len(events[r]) : events[r][k].event = "error"}

(***************************************************************************)
(* C1: a terminal frame (end or error) is never followed by another frame, *)
(* so there is at most one, and the sequence of a finished stream ends     *)
(* with one.                                                               *)
(***************************************************************************)
C1_OneTerminalLast ==
    \A r \in Requests :
        /\ \A k \in TerminalAt(r) : k = Len(events[r])
        /\ Finished(r) =>
              /\ events[r] # <<>>
              /\ Cardinality(TerminalAt(r)) = 1
              /\ IsTerminal(LastEvent(r))

\* a stream that emitted a data frame, noticed the disconnect and finished
C1_Witness ==
    \E r \in Requests :
        /\ pc[r] = "closed"
        /\ detected[r]
        /\ Len(DataEvents(r)) >= 1

(***************************************************************************)
(* C2: when the upstream returned n >= 1 results, all of them objects, the *)
(* request's count c is not negative and the client stayed connected, the  *)
(* finished stream holds min(n, c) data frames and the k-th carries        *)
(* index k.                                                                *)
(***************************************************************************)
C2_DataCountIsMin ==
    \A r \in Requests :
        ( /\ pc[r] = "closed"
          /\ connected[r]
          /\ FetchSucceeded(r)
          /\ Len(web_results[r]) >= 1
          /\ WellFormed(web_results[r])
          /\ body[r].count >= 0 )
        => /\ Len(DataEvents(r)) = Min(Len(web_results[r]), body[r].count)
           /\ \A k \in 1..Len(DataEvents(r)) :
                 DataEvents(r)[k].data[2] = ToString(k)

C4_ZeroCountNoData ==
    \A r \in Requests :
        ( /\ FetchSucceeded(r)
          /\ Len(web_results[r]) >= 1
          /\ body[r].count = 0 )
        => /\ DataEvents(r) = <<>>
           /\ Finished(r) => /\ \E k \in 1..Len(events[r]) : events[r][k] = StreamingResults
                             /\ IsTerminal(LastEvent(r))

(***************************************************************************)
(* C5: the upstream GET of a request carries the request's count as count  *)
(* and the request's language as search_lang.                              *)
(***************************************************************************)
C5_ParamsUnchanged ==
    \A r \in Requests :
        \A k \in 1..Len(gets[r]) :
            /\ gets[r][k].params.count = body[r].count
            /\ gets[r][k].params.search_lang = body[r].language

(***************************************************************************)
(* C6: after an upstream call that succeeded with zero results the stream  *)
(* is Search started, No results found, end [] and nothing else, and the   *)
(* disconnect check is never made.                                         *)
(***************************************************************************)
C6_EmptySequence ==
    \A r \in Requests :
        ZeroResults(r) =>
            /\ checks[r] = 0
            /\ pc[r] \in {"no_results", "end_sent", "closed"}
            /\ pc[r] = "no_results" => events[r] = <<SearchStarted, NoResultsFound>>
            /\ pc[r] \in {"end_sent", "closed"} =>
                  events[r] = <<SearchStarted, NoResultsFound, EndEmpty>>

\* a finished stream whose upstream body held an empty result list
C6_Witness ==
    \E r \in Requests :
        /\ pc[r] = "closed"
        /\ ZeroResults(r)
        /\ outcome[r].data.hasResults

(***************************************************************************)
(* C7: after an upstream response with an error status the stream is       *)
(* Search started followed by one error frame, whose message holds the     *)
(* status code and the response body; no data frame, no Streaming results. *)
(***************************************************************************)
C7_HttpErrorSequence ==
    \A r \in Requests :
        HttpFailed(r) =>
            /\ Len(events[r]) = 2
            /\ events[r][1] = SearchStarted
            /\ events[r][2].event = "error"
            /\ ToString(outcome[r].status) \in Pieces(events[r][2])
            /\ outcome[r].text \in Pieces(events[r][2])

\* a finished stream whose upstream answered 429
C7_Witness ==
    \E r \in Requests :
        /\ pc[r] = "closed"
        /\ HttpFailed(r)
        /\ outcome[r].status = 429

(***************************************************************************)
(* C8: no exception leaves the generator; once one was raised, the stream  *)
(* holds exactly one error frame, which is its last frame, and before it   *)
(* the data frames of the results taken before the failure, unchanged.     *)
(***************************************************************************)
C8_FailureIsOneErrorEvent ==
    \A r \in Requests :
        /\ pc[r] # "raised"
        /\ exc[r] # NoExc =>
              /\ pc[r] \in {"error_sent", "closed"}
              /\ ErrorAt(r) = {Len(events[r])}
              /\ TerminalAt(r) = {Len(events[r])}
              /\ Len(DataEvents(r)) = Max(i[r] - 1, 0)
              /\ \A k \in 1..Len(DataEvents(r)) :
                    DataEvents(r)[k] = DataFrame(k, sliced[r][k])

\* a finished stream that failed on a later result, after a data frame
C8_Witness ==
    \E r \in Requests :
        /\ pc[r] = "closed"
        /\ exc[r].type = "AttributeError"
        /\ Len(DataEvents(r)) >= 1

(***************************************************************************)
(* C9: a request issues no upstream GET before Search started is emitted,  *)
(* issues one right after it, before any other frame, and never another.   *)
(***************************************************************************)
C9_OneUpstreamCall ==
    \A r \in Requests :
        /\ Len(gets[r]) <= 1
        /\ pc[r] \in {"idle", "created", "started"} => gets[r] = <<>>
        /\ pc[r] \notin {"idle", "created", "started"} =>
              /\ Len(gets[r]) = 1
              /\ gets[r][1].emitted = 1
              /\ events[r][1] = SearchStarted

\* a finished stream whose one upstream call failed in transport
C9_Witness ==
    \E r \in Requests :
        /\ pc[r] = "closed"
        /\ outcome[r].transport
        /\ Len(gets[r]) = 1

(***************************************************************************)
(* C10: the k-th data frame of a stream is emitted only if k is at most    *)
(* min(count, n), count the count field of the request as received and n   *)
(* the number of results the upstream returned.                            *)
(***************************************************************************)
C10_DataAtMostMin ==
    \A r \in Requests :
        FetchSucceeded(r) =>
            \A k \in 1..Len(DataEvents(r)) :
                k <= Min(body[r].count, Len(web_results[r]))

(***************************************************************************)
(* C11: a step that leaves the disconnect check answered True, or that is  *)
(* taken after it has, emits no data frame and makes no pause; after the   *)
(* answer no further check is made; so the data frames stay the k emitted  *)
(* before the check.                                                       *)
(***************************************************************************)
C11_NoDataAfterDisconnect ==
    [][\A r \in Requests :
          detected[r]' =>
              /\ DataEvents(r)' = DataEvents(r)
              /\ Len(DataEvents(r)') = i[r]
              /\ sleeps[r]' = sleeps[r]
              /\ detected[r] => checks[r]' = checks[r]]_vars

\* a finished stream of two results to emit, stopped after the first
C11_Witness ==
    \E r \in Requests :
        /\ pc[r] = "closed"
        /\ detected[r]
        /\ Len(DataEvents(r)) = 1
        /\ Len(sliced[r]) = 2
        /\ Len(sliced[r]) = Min(Len(web_results[r]), body[r].count)

(***************************************************************************)
(* C12: every stream, once created, is eventually closed; and a closed     *)
(* stream holds a k-th data frame only for k at most min(n, count), n the  *)
(* number of results the upstream returned and count the count             *)
(* event_stream was called with.                                           *)
(***************************************************************************)
C12_Terminates ==
    \A r \in Requests : (pc[r] = "created") ~> (pc[r] = "closed")

C12_DataWithinBound ==
    \A r \in Requests :
        (pc[r] = "closed" /\ FetchSucceeded(r)) =>
            \A k \in 1..Len(DataEvents(r)) :
                k <= Min(Len(web_results[r]), args[r].count)

C12_FiniteStream == C12_Terminates /\ []C12_DataWithinBound

(***************************************************************************)
(* C13: with the requests interleaved in any order, the frames of each     *)
(* request are the ones its own fields, its own upstream outcome and its   *)
(* own disconnect give when it runs alone, and a step of one request       *)
(* leaves every part of the state of the others as it was.                 *)
(***************************************************************************)
\* the data frames of the first m results of list l
RECURSIVE DataFramesOf(_, _)
DataFramesOf(l, m) ==
    IF m = 0 THEN <<>> ELSE Append(DataFramesOf(l, m - 1), DataFrame(m, l[m]))

\* what request r has emitted when it runs alone, from its own arguments,
\* upstream outcome, position and disconnect
AloneEvents(r) ==
    LET res == brave_search_result(outcome[r])
        wr  == web_results_of(res.data)
        l   == PySlice(wr, OrDefault(body[r].count, FallbackCount))
        failed == exc[r] # NoExc
        m   == IF failed THEN i[r] - 1 ELSE i[r]
    IN  IF pc[r] \in {"idle", "created"} THEN <<>>
        ELSE IF pc[r] \in {"started", "fetching"} THEN <<SearchStarted>>
        ELSE IF res.raised THEN <<SearchStarted, ExceptFrame(res.exc).frame>>
        ELSE IF wr = <<>>
        THEN IF pc[r] = "no_results" THEN <<SearchStarted, NoResultsFound>>
             ELSE <<SearchStarted, NoResultsFound, EndEmpty>>
        ELSE <<SearchStarted, StreamingResults>>
             \o DataFramesOf(l, m)
             \o (IF failed
                 THEN <<Frame("error", <<"Exception: ">> \o exc[r].str)>>
                 ELSE IF pc[r] \in {"end_sent", "closed"} THEN <<EndOfStream>>
                 ELSE <<>>)

\* request r alone decides how far its stream has gone
AloneProgress(r) ==
    LET l == PySlice(web_results_of(brave_search_result(outcome[r]).data),
                     OrDefault(body[r].count, FallbackCount))
    IN  /\ i[r] <= Len(l)
        /\ exc[r].type = "AttributeError" => ~l[i[r]].dict
        /\ (pc[r] \in {"end_sent", "closed"} /\ FetchSucceeded(r) /\ ~ZeroResults(r)
               /\ ~detected[r] /\ exc[r] = NoExc) => i[r] = Len(l)
        /\ detected[r] => ~connected[r]

C13_AsAlone ==
    \A r \in Requests : events[r] = AloneEvents(r) /\ AloneProgress(r)

\* the part of the state that belongs to request r
Own(r) == <<pc[r], body[r], args[r], gets[r], outcome[r], web_results[r],
            sliced[r], i[r], events[r], connected[r], checks[r], sleeps[r],
            detected[r], exc[r]>>

C13_OneRequestPerStep ==
    \E r \in Requests : \A q \in Requests \ {r} : Own(q)' = Own(q)

C13_Isolation == []C13_AsAlone /\ [][C13_OneRequestPerStep]_vars

\* one stream has just failed on its second result while the other, whose
\* client has gone, is in its pause between two data frames
C13_Witness ==
    /\ pc[1] = "error_sent"
    /\ Len(DataEvents(1)) >= 1
    /\ pc[2] = "sleeping"
    /\ ~connected[2]
    /\ Len(DataEvents(2)) >= 1

(***************************************************************************)
(* C14: the k-th data frame of a stream carries index k and the title,     *)
(* description and url of the k-th result of the upstream list, "" for a   *)
(* key the result has not.                                                 *)
(***************************************************************************)
FieldOf(result, key) ==
    IF key \in DOMAIN result.items THEN result.items[key] ELSE ""

C14_UpstreamOrder ==
    \A r \in Requests :
        \A k \in 1..Len(DataEvents(r)) :
            LET upstream == outcome[r].data.results
            IN  /\ k <= Len(upstream)
                /\ DataEvents(r)[k].data =
                      <<"index", ToString(k),
                        "title", FieldOf(upstream[k], "title"),
                        "description", FieldOf(upstream[k], "description"),
                        "url", FieldOf(upstream[k], "url")>>

\* two data frames, of two different results, the second without a url
C14_Witness ==
    \E r \in Requests :
        /\ Len(DataEvents(r)) = 2
        /\ DataEvents(r)[1].data[4] = "t2"
        /\ DataEvents(r)[2].data[4] = "t3"
        /\ DataEvents(r)[2].data[8] = ""

(***************************************************************************)
(* C15: after a 2xx response whose parsed body has no "web" key, or a      *)
(* "web" object with no "results" key, no exception is raised and no error *)
(* frame emitted: the stream is Search started, No results found, end [].  *)
(***************************************************************************)
MissingPath(r) ==
    FetchSucceeded(r) /\ ~(outcome[r].data.hasWeb /\ outcome[r].data.hasResults)

C15_MissingPathIsEmpty ==
    \A r \in Requests :
        MissingPath(r) =>
            /\ exc[r] = NoExc
            /\ ErrorAt(r) = {}
            /\ Len(events[r]) >= 2
            /\ events[r][2] = NoResultsFound
            /\ Finished(r) => events[r] = <<SearchStarted, NoResultsFound, EndEmpty>>

\* a finished stream whose upstream body had a "web" object without "results"
C15_Witness ==
    \E r \in Requests :
        /\ pc[r] = "closed"
        /\ MissingPath(r)
        /\ outcome[r].data.hasWeb

\* a finished stream whose upstream body had no "web" key
C15_WitnessNoWeb ==
    \E r \in Requests :
        /\ pc[r] = "closed"
        /\ MissingPath(r)
        /\ ~outcome[r].data.hasWeb

(***************************************************************************)
(* C16: the last frame of every finished stream that did not take the      *)
(* empty path is end: end_of_stream, the streams that failed included.     *)
(***************************************************************************)
C16_EndOfStreamUnlessEmpty ==
    \A r \in Requests :
        (Finished(r) /\ ~ZeroResults(r)) => LastEvent(r) = EndOfStream

\* C16, amended: a finished stream that failed ends with its error frame
\* and holds no end frame; one that took the empty path ends with end [];
\* every other one ends with end: end_of_stream.
C16_ErrorEndsStream ==
    \A r \in Requests :
        Finished(r) =>
            /\ exc[r] # NoExc =>
                  /\ LastEvent(r).event = "error"
                  /\ \A k \in 1..Len(events[r]) : events[r][k].event # "end"
            /\ (exc[r] = NoExc /\ ZeroResults(r)) => LastEvent(r) = EndEmpty
            /\ (exc[r] = NoExc /\ ~ZeroResults(r)) => LastEvent(r) = EndOfStream

\* a finished stream whose upstream body did not parse
C16_Witness ==
    \E r \in Requests :
        /\ pc[r] = "closed"
        /\ exc[r].type = "JSONDecodeError"

(***************************************************************************)
(* C17: Search started is the first frame; No results found is emitted at  *)
(* most once and only after zero results, Streaming results at most once   *)
(* and only after at least one, never both; every data frame comes after   *)
(* Streaming results.                                                      *)
(***************************************************************************)
At(r, f) == {k \in 1..Len(events[r]) : events[r][k] = f}

C17_StatusFrames ==
    \A r \in Requests :
        /\ events[r] # <<>> => At(r, SearchStarted) = {1}
        /\ Cardinality(At(r, NoResultsFound)) <= 1
        /\ Cardinality(At(r, StreamingResults)) <= 1
        /\ At(r, NoResultsFound) # {} =>
              FetchSucceeded(r) /\ Len(web_results_of(outcome[r].data)) = 0
        /\ At(r, StreamingResults) # {} =>
              FetchSucceeded(r) /\ Len(web_results_of(outcome[r].data)) >= 1
        /\ At(r, NoResultsFound) = {} \/ At(r, StreamingResults) = {}
        /\ \A k \in 1..Len(events[r]) :
              IsData(events[r][k]) => \E j \in At(r, StreamingResults) : j < k

\* a stream that ran to its end with two data frames
C17_Witness ==
    \E r \in Requests :
        /\ pc[r] = "closed"
        /\ exc[r] = NoExc
        /\ ~detected[r]
        /\ Len(DataEvents(r)) = 2

(***************************************************************************)
(* C18: the connection is checked once after each data frame, the last     *)
(* included, and nowhere else: the checks made are as many as the data     *)
(* frames emitted (one fewer while the generator is suspended at a data    *)
(* frame), each check but one that answered True is followed by a pause,   *)
(* and a stream that no check stopped emits every result of the slice.     *)
(***************************************************************************)
C18_CheckAfterEachData ==
    \A r \in Requests :
        /\ checks[r] = Len(DataEvents(r)) - (IF pc[r] = "data" THEN 1 ELSE 0)
        /\ sleeps[r] = checks[r] - (IF detected[r] THEN 1 ELSE 0)
        /\ detected[r] => ~connected[r]
        /\ (Finished(r) /\ FetchSucceeded(r) /\ ~detected[r] /\ exc[r] = NoExc) =>
              Len(DataEvents(r)) =
                  Len(PySlice(web_results_of(outcome[r].data), args[r].count))

\* the client has gone before the first data frame, which is emitted all
\* the same, with Streaming results, and no check made yet
C18_Witness ==
    \E r \in Requests :
        /\ pc[r] = "data"
        /\ ~connected[r]
        /\ checks[r] = 0
        /\ Len(DataEvents(r)) = 1
        /\ At(r, StreamingResults) = {2}

=============================================================================
